---- MODULE Spec2Model ----
(***************************************************************************)
(* OAuth proxy: the resource server's token verifier and OAuth routes      *)
(* (mcp_resource_server) and the client's callback listener (mcp_client).  *)
(* Strings are TLA+ strings, handled character by character where the      *)
(* code does so (startswith, split, join).                                 *)
(***************************************************************************)
EXTENDS Integers, Sequences, FiniteSets, TLC

(***************************************************************************)
(* Bounds of the model.                                                    *)
(***************************************************************************)
\* longest `aud` list an introspection response carries
MaxAud == 2

\* POSTs the authorization server's registration endpoint receives in a run
MaxUpstreamCalls == 3

\* most `&`-separated items in the body of a /token request
MaxItems == 3

\* callback requests the listener receives in a run
MaxCallbacks == 2

\* the `timeout` of wait_for_callback, in polling intervals
WaitTimeout == 2

\* the clock stops here
MaxClock == 3

\* process starts of the resource server after the first
MaxStarts == 2

(***************************************************************************)
(* Python values.  An optional value (a dict key that may be missing, a    *)
(* field that may be None) is a sequence of length 0 or 1.                 *)
(***************************************************************************)
Absent == << >>

Some(x) == << x >>

IsSome(o) == Len(o) = 1

Val(o) == o[1]

\* str.startswith(prefix)
StartsWith(s, p) == Len(s) >= Len(p) /\ SubSeq(s, 1, Len(p)) = p

\* str.startswith((p1, p2, ...)): any prefix of the tuple
StartsWithAny(s, ps) == \E i \in 1..Len(ps) : StartsWith(s, ps[i])

\* str.endswith(suffix)
EndsWith(s, p) == Len(s) >= Len(p) /\ SubSeq(s, Len(s) - Len(p) + 1, Len(s)) = p

\* str.find(sep) + 1 for a one-character sep: 0 when sep does not occur
FindChar(s, c) ==
    IF \E i \in 1..Len(s) : SubSeq(s, i, i) = c
    THEN CHOOSE i \in 1..Len(s) :
            /\ SubSeq(s, i, i) = c
            /\ \A j \in 1..(i - 1) : SubSeq(s, j, j) # c
    ELSE 0

\* str.split(sep) for a one-character sep: every piece, empty ones included
RECURSIVE Split(_, _)
Split(s, c) ==
    LET i == FindChar(s, c)
    IN  IF i = 0 THEN << s >>
        ELSE << SubSeq(s, 1, i - 1) >> \o Split(SubSeq(s, i + 1, Len(s)), c)

(***************************************************************************)
(* Resource URLs, as urlparse splits them: scheme, netloc (host:port) and  *)
(* path.                                                                   *)
(***************************************************************************)
Url(scheme, netloc, path) == [scheme |-> scheme, netloc |-> netloc, path |-> path]

\* with a trailing "/" when there is none
WithSlash(p) == IF EndsWith(p, "/") THEN p ELSE p \o "/"

\* mcp.shared.auth_utils.check_resource_allowed: same scheme and netloc, and
\* the configured path equal to or an ancestor of the requested path
check_resource_allowed(requested_resource, configured_resource) ==
    /\ requested_resource.scheme = configured_resource.scheme
    /\ requested_resource.netloc = configured_resource.netloc
    /\ Len(requested_resource.path) >= Len(configured_resource.path)
    /\ StartsWith(WithSlash(requested_resource.path),
                  WithSlash(configured_resource.path))

(***************************************************************************)
(* State.                                                                  *)
(***************************************************************************)
VARIABLES
    \* IntrospectionTokenVerifier: configuration
    introspection_endpoint,   \* str
    validate_resource,        \* bool (--oauth-strict)
    resource_url,             \* resource_url_from_server_url(server_url)
    \* IntrospectionTokenVerifier: client credentials, None (Absent) or a str
    client_id,
    client_secret,
    \* one verify_token call
    vpc,        \* "idle" | "introspect" | "userinfo" | "done"
    vtoken,     \* the bearer token of the call
    vsent,      \* the requests the call has issued, in order
    vintro,     \* the introspection response the call received, if any
    vuserinfo,  \* the userinfo response the call received, if any
    vresult,    \* outcome of the call
    vverified,  \* history: the call before this one returned a VerifiedToken
                \* for the same token
    \* the credentials file CREDENTIALS_FILE: Absent, or the JSON object in it
    credentials_file,
    \* the /register requests in flight
    rpc,        \* per request: "idle" | "await_json" | "await_post" | "done"
    rdone,      \* per request: what it saw and did, and its response
    \* the authorization server's registration endpoint
    am_calls,       \* POSTs to /oidc/register received
    am_registered,  \* clients it has registered
    \* one /token request
    tpc,        \* "idle" | "await_post" | "done"
    tbody,      \* the request body
    tforward,   \* the body forwarded upstream, if any
    tupstream,  \* `resp`, the authorization server's answer, if any
    tresponse,  \* the proxy's response
    \* mcp_client: the CallbackServer of one authorization flow
    callback_data,  \* the dict shared by the handler and the waiter
    listening,      \* the HTTPServer is bound and serving
    hpc,            \* the serving thread: "idle" | "write_state"
    hreq,           \* the request do_GET is handling
    handled,        \* the requests do_GET has handled, in order
    clock,          \* time.time(), in polling intervals
    \* callback_handler, the coroutine that waits for the callback
    wpc,        \* its position
    wstart,     \* `start` of wait_for_callback
    wslept,     \* the clock when time.sleep(0.1) began
    wcode,      \* `code`, what wait_for_callback returned
    wstate,     \* `state`, what get_state returned
    wresult,    \* how callback_handler ended
    \* a second authorization flow of the same host: its CallbackServer
    other_listening,  \* its HTTPServer is bound to the port and serving
    other_start,      \* how its start() ended, and what it found
    \* _is_valid_resource applied to one audience
    aud_checked,  \* the audience it was given, if any
    aud_valid,    \* what it returned
    \* the resource server process
    proc,        \* "first" | "started" (a later start that loaded the
                 \* credentials) | "crashed" (a start that raised)
    starts,      \* process starts after the first
    registered,  \* history: the pairs registered by the successful fresh
                 \* registrations of the processes before this one
    \* the CallbackServer object of the flow
    started,      \* self.server is set: start() has built the HTTPServer
    stop_result   \* what the last stop() outside callback_handler found and
                  \* did: "not called" | "nothing to stop" | "stopped" |
                  \* "already stopped"

configVars == << introspection_endpoint, validate_resource, resource_url >>

credVars == << client_id, client_secret >>

verifyVars == << vpc, vtoken, vsent, vintro, vuserinfo, vresult, vverified >>

registerVars == << credentials_file, rpc, rdone, am_calls, am_registered >>

tokenVars == << tpc, tbody, tforward, tupstream, tresponse >>

callbackVars == << callback_data, listening, hpc, hreq, handled, clock,
                   wpc, wstart, wslept, wcode, wstate, wresult >>

otherVars == << other_listening, other_start >>

auditVars == << aud_checked, aud_valid >>

processVars == << proc, starts, registered >>

stopVars == << started, stop_result >>

vars == << configVars, credVars, verifyVars, registerVars, tokenVars, callbackVars,
           otherVars, auditVars, processVars, stopVars >>

(***************************************************************************)
(* Inputs of the token verifier.                                           *)
(***************************************************************************)
Tokens == {"tok-a", "tok-b"}

IntrospectionEndpoints ==
    { "https://am.example.com/oauth/introspect",
      "http://localhost:8092/oauth/introspect",
      "http://127.0.0.1:8092/oauth/introspect",
      "http://localhost.evil.com/oauth/introspect",
      "http://am.example.com/oauth/introspect",
      "ftp://am.example.com/oauth/introspect" }

\* str(settings.server_url) of the default settings, and a server below a path
ServerResources ==
    { Url("http", "localhost:8001", "/"), Url("http", "localhost:8001", "/api") }

AudUrls ==
    { Url("http", "localhost:8001", ""),
      Url("http", "localhost:8001", "/api"),
      Url("http", "evil.example:8001", "") }

AudLists == UNION { [1..n -> AudUrls] : n \in 0..MaxAud }

\* the JSON value of `aud`: null, a string or a list of strings
AudValues ==
    { [kind |-> "null", urls |-> << >>] }
    \cup { [kind |-> "str", urls |-> << u >>] : u \in AudUrls }
    \cup { [kind |-> "list", urls |-> l] : l \in AudLists }

Scopes == { "openid full_profile", "", "openid  mcp" }

\* the JSON object of an introspection response; a key may be missing
IntrospectionData ==
    [ active : { Absent, Some(TRUE), Some(FALSE) },
      scope : { Absent } \cup { Some(s) : s \in Scopes },
      exp : { Absent, Some(1999999999) },
      aud : { Absent } \cup { Some(a) : a \in AudValues },
      client_id : { Absent, Some("token-client") } ]

NoData ==
    [ active |-> Absent, scope |-> Absent, exp |-> Absent, aud |-> Absent,
      client_id |-> Absent ]

\* what the body of a non-200 answer may be
ErrorData ==
    { NoData,
      [ NoData EXCEPT !.active = Some(TRUE), !.scope = Some("openid"),
                      !.aud = Some([kind |-> "str",
                                    urls |-> << Url("http", "localhost:8001", "") >>]) ] }

\* outcome of client.post(introspection_endpoint): an exception (exc), or an
\* HTTP response whose body is JSON (json, data) or is not
IntrospectionResponses ==
    { [exc |-> TRUE, status |-> 0, json |-> FALSE, data |-> NoData] }
    \cup { [exc |-> FALSE, status |-> 200, json |-> TRUE, data |-> d] :
             d \in IntrospectionData }
    \cup { [exc |-> FALSE, status |-> 200, json |-> FALSE, data |-> NoData] }
    \cup { [exc |-> FALSE, status |-> st, json |-> TRUE, data |-> d] :
             st \in {401, 500}, d \in ErrorData }

NoClaims == [none |-> "none"]

\* outcome of client.get(userinfo_endpoint)
UserinfoResponses ==
    { [exc |-> TRUE, status |-> 0, json |-> FALSE, data |-> NoClaims],
      [exc |-> FALSE, status |-> 200, json |-> TRUE,
       data |-> [email |-> "a@graviteesource.com"]],
      [exc |-> FALSE, status |-> 200, json |-> FALSE, data |-> NoClaims],
      [exc |-> FALSE, status |-> 401, json |-> TRUE,
       data |-> [error |-> "invalid_token"]] }

(***************************************************************************)
(* IntrospectionTokenVerifier.                                             *)
(***************************************************************************)
\* Python truth of an optional str: None and "" are false
Truthy(o) == IsSome(o) /\ Val(o) # ""

\* the SSRF guard of verify_token
\* EndpointAllowed letting every http endpoint through
EndpointAllowed_AnyHttp(endpoint) ==
    StartsWithAny(endpoint, << "https://", "http://" >>)

EndpointAllowed(endpoint) ==
    StartsWithAny(endpoint, << "https://", "http://localhost", "http://127.0.0.1" >>)

\* IsActive with the default of a missing key turned to True
IsActive_DefaultTrue(data) == IF IsSome(data.active) THEN Val(data.active) ELSE TRUE

\* IsActive answered from an earlier call's verdict on the token
IsActive_Cached(data) ==
    (IsSome(data.active) /\ Val(data.active)) \/ vverified

\* data.get("active", False)
IsActive(data) == IF IsSome(data.active) THEN Val(data.active) ELSE FALSE

\* _is_valid_resource with the two arguments of check_resource_allowed swapped
_is_valid_resource_Swapped(resource) ==
    IF ~IsSome(resource_url) THEN FALSE
    ELSE check_resource_allowed(resource, Val(resource_url))

_is_valid_resource(resource) ==
    IF ~IsSome(resource_url) THEN FALSE
    ELSE check_resource_allowed(Val(resource_url), resource)

\* _validate_resource accepting a token that carries no audience
_validate_resource_NoAudOk(token_data) ==
    IF ~IsSome(resource_url) THEN FALSE
    ELSE LET aud == token_data.aud
         IN  IF IsSome(aud) /\ Val(aud).kind = "list"
             THEN \E i \in 1..Len(Val(aud).urls) : _is_valid_resource(Val(aud).urls[i])
             ELSE IF IsSome(aud) /\ Val(aud).kind = "str"
             THEN _is_valid_resource(Val(aud).urls[1])
             ELSE TRUE

_validate_resource(token_data) ==
    IF ~IsSome(resource_url) THEN FALSE
    ELSE LET aud == token_data.aud
         IN  IF IsSome(aud) /\ Val(aud).kind = "list"
             THEN \E i \in 1..Len(Val(aud).urls) : _is_valid_resource(Val(aud).urls[i])
             ELSE IF IsSome(aud) /\ Val(aud).kind = "str"
             THEN _is_valid_resource(Val(aud).urls[1])
             ELSE FALSE

\* ResourceRejected validating the resource with strict mode on or off
ResourceRejected_Always(data) == ~_validate_resource(data)

\* `self.validate_resource and not self._validate_resource(data)`
ResourceRejected(data) == validate_resource /\ ~_validate_resource(data)

\* results of a verify_token call
Pending == [kind |-> "pending", token |-> Absent]

ReturnsNone == [kind |-> "none", token |-> Absent]

Raises == [kind |-> "raise", token |-> Absent]

\* AccessTokenWithClaims with the AttributeError of None.split left uncaught
AccessTokenWithClaims_Uncaught(token, data, userInfo) ==
    IF ~IsSome(data.scope) THEN Raises
    ELSE IF ~userInfo.json THEN ReturnsNone
    ELSE [kind |-> "token",
          token |-> Some([ token |-> token,
                           client_id |-> IF IsSome(data.client_id)
                                         THEN Val(data.client_id)
                                         ELSE Val(client_id),
                           scopes |-> Split(Val(data.scope), " "),
                           expires_at |-> data.exp,
                           resource |-> data.aud,
                           claims |-> userInfo.data ])]

\* AccessTokenWithClaims(...), built from the introspection data and the
\* userinfo response; any exception on the way is caught and gives None
AccessTokenWithClaims(token, data, userInfo) ==
    IF ~IsSome(data.scope) THEN ReturnsNone        \* None.split: AttributeError
    ELSE IF ~userInfo.json THEN ReturnsNone        \* userInfo.json() raises
    ELSE [kind |-> "token",
          token |-> Some([ token |-> token,
                           client_id |-> IF IsSome(data.client_id)
                                         THEN Val(data.client_id)
                                         ELSE Val(client_id),
                           scopes |-> Split(Val(data.scope), " "),
                           expires_at |-> data.exp,
                           resource |-> data.aud,
                           claims |-> userInfo.data ])]

IntrospectionRequest(token) ==
    [to |-> "introspect", token |-> token,
     client_id |-> client_id, client_secret |-> client_secret]

UserinfoRequest(token) ==
    [to |-> "userinfo", token |-> token,
     client_id |-> Absent, client_secret |-> Absent]

\* CredentialsSet looking at the client_id only
CredentialsSet_IdOnly == Truthy(client_id)

\* the negation of `not self.client_id or not self.client_secret`
CredentialsSet == Truthy(client_id) /\ Truthy(client_secret)

\* verify_token up to its first await: the credential check, the endpoint
\* check and the POST to the introspection endpoint
VerifyBegin(token) ==
    /\ vpc \in {"idle", "done"}
    /\ vtoken' = token
    /\ vintro' = Absent
    /\ vuserinfo' = Absent
    /\ vverified' = (vresult.kind = "token" /\ vtoken = token)
    /\ IF ~CredentialsSet
       THEN vpc' = "done" /\ vresult' = Raises /\ vsent' = << >>
       ELSE IF ~EndpointAllowed(introspection_endpoint)
       THEN vpc' = "done" /\ vresult' = ReturnsNone /\ vsent' = << >>
       ELSE /\ vpc' = "introspect"
            /\ vresult' = Pending
            /\ vsent' = << IntrospectionRequest(token) >>
    /\ UNCHANGED << configVars, credVars, registerVars, tokenVars, callbackVars,
                    otherVars, auditVars, processVars, stopVars >>

\* the introspection response arrives: status, active and resource checks,
\* then the GET to the userinfo endpoint
VerifyIntrospected(response) ==
    /\ vpc = "introspect"
    /\ vintro' = Some(response)
    /\ IF \/ response.exc
          \/ response.status # 200
          \/ ~response.json
          \/ ~IsActive(response.data)
          \/ ResourceRejected(response.data)
       THEN vpc' = "done" /\ vresult' = ReturnsNone /\ vsent' = vsent
       ELSE /\ vpc' = "userinfo"
            /\ vresult' = Pending
            /\ vsent' = Append(vsent, UserinfoRequest(vtoken))
    /\ UNCHANGED << vtoken, vuserinfo, vverified >>
    /\ UNCHANGED << configVars, credVars, registerVars, tokenVars, callbackVars,
                    otherVars, auditVars, processVars, stopVars >>

\* the userinfo response arrives: the result is assembled
VerifyUserinfo(response) ==
    /\ vpc = "userinfo"
    /\ vuserinfo' = Some(response)
    /\ vpc' = "done"
    /\ vresult' = IF response.exc THEN ReturnsNone
                  ELSE AccessTokenWithClaims(vtoken, Val(vintro).data, response)
    /\ UNCHANGED << vtoken, vsent, vintro, vverified >>
    /\ UNCHANGED << configVars, credVars, registerVars, tokenVars, callbackVars,
                    otherVars, auditVars, processVars, stopVars >>

\* the URLs a server is configured with, and the audiences tokens carry
AuditSchemes == {"http", "https"}

AuditServers ==
    { Url(sc, nl, pa) : sc \in AuditSchemes, nl \in {"localhost:8001", "localhost:9000"},
                        pa \in {"/", "/api", "/api/v1"} }

AuditAudiences ==
    { Url(sc, nl, pa) : sc \in AuditSchemes,
                        nl \in {"localhost:8001", "localhost:9000", "evil.example:8001"},
                        pa \in {"", "/", "/api", "/ap", "/api/v1", "/other"} }

\* self._is_valid_resource(audience), as _validate_resource calls it
CheckAudience(audience) ==
    /\ aud_checked' = Some(audience)
    /\ aud_valid' = _is_valid_resource(audience)
    /\ UNCHANGED << configVars, credVars, verifyVars, registerVars, tokenVars,
                    callbackVars, otherVars, processVars, stopVars >>

IdleAudit == aud_checked = Absent /\ aud_valid = FALSE

NextAudit == \E audience \in AuditAudiences : CheckAudience(audience)

\* a verifier that no verify_token call has used
IdleVerify ==
    /\ IdleAudit
    /\ vpc = "idle"
    /\ vtoken = "tok-a"
    /\ vsent = << >>
    /\ vintro = Absent
    /\ vuserinfo = Absent
    /\ vresult = Pending
    /\ vverified = FALSE

\* what load_client_credentials leaves in the verifier: nothing without a
\* file, else creds.get("client_id") and creds.get("client_secret")
LoadedCredentials ==
    { << Absent, Absent >>, << Some("client-1"), Some("secret-1") >>,
      << Some("client-1"), Absent >>, << Absent, Some("secret-1") >> }

\* the verifier as create_resource_server leaves it: configured, and with
\* the credentials of the credentials file when there is one
InitVerifier ==
    /\ introspection_endpoint \in IntrospectionEndpoints
    /\ validate_resource \in BOOLEAN
    /\ resource_url \in { Some(u) : u \in ServerResources }
    /\ \E creds \in LoadedCredentials :
          client_id = creds[1] /\ client_secret = creds[2]
    /\ IdleVerify

NextVerifier ==
    \/ \E token \in Tokens : VerifyBegin(token)
    \/ \E response \in IntrospectionResponses : VerifyIntrospected(response)
    \/ \E response \in UserinfoResponses : VerifyUserinfo(response)

(***************************************************************************)
(* routes/oauth.py: the credentials file and POST /register.               *)
(* A JSON object is a record of optional values, one per key it may hold;  *)
(* the empty dict holds none.                                              *)
(***************************************************************************)
RegistrationKeys ==
    { "client_id", "client_secret", "registration_access_token",
      "registration_client_uri", "client_name" }

EmptyDict == [k \in RegistrationKeys |-> Absent]

\* `key in data`
HasKey(data, key) == IsSome(data[key])

\* `del data[key]` (of a key that is there)
DelKey(data, key) == [data EXCEPT ![key] = Absent]

\* `not data` of a dict
IsEmptyDict(data) == \A k \in RegistrationKeys : ~HasKey(data, k)

\* load_credentials(): the file's JSON object, {} without a file
load_credentials == IF IsSome(credentials_file) THEN Val(credentials_file) ELSE EmptyDict

\* StripManagement without the second `del`
StripManagement_KeepUri(data) == DelKey(data, "registration_access_token")

\* the two `del` statements before save_credentials (both keys are there)
StripManagement(data) ==
    DelKey(DelKey(data, "registration_access_token"), "registration_client_uri")

\* the two concurrent requests
Requests == {1, 2}

\* the client the authorization server registers n-th, as the JSON object
\* of its response, which carries the keys `keys`
NewClient(n, keys) ==
    [k \in RegistrationKeys |->
        IF k \notin keys THEN Absent
        ELSE Some(CASE k = "client_id" -> "client-" \o ToString(n)
                    [] k = "client_secret" -> "secret-" \o ToString(n)
                    [] k = "registration_access_token" -> "rat-" \o ToString(n)
                    [] k = "registration_client_uri" -> "uri-" \o ToString(n)
                    [] OTHER -> "mcp client")]

\* the keys a registration response carries: client_id and client_name, and
\* any of the others
ResponseKeySets ==
    { {"client_id", "client_name"} \cup ks :
        ks \in SUBSET {"client_secret", "registration_access_token",
                       "registration_client_uri"} }

\* outcome of client.post(.../oidc/register): an exception (exc), an error
\* status, a 201 without a JSON body, or a 201 carrying `keys`
RegistrationOutcomes ==
    { [exc |-> TRUE, status |-> 0, json |-> FALSE, keys |-> {}],
      [exc |-> FALSE, status |-> 400, json |-> TRUE, keys |-> {}],
      [exc |-> FALSE, status |-> 201, json |-> FALSE, keys |-> {}] }
    \cup { [exc |-> FALSE, status |-> 201, json |-> TRUE, keys |-> ks] :
             ks \in ResponseKeySets }

\* PublicRecord leaving the secret in the response
PublicRecord_KeepSecret(data) == data

\* `del data['client_secret']` before the response is built
PublicRecord(data) == DelKey(data, "client_secret")

\* the JSONResponse of /register
RegisterOk(data) == [status |-> 200, body |-> data]

RegisterError == [status |-> 400, body |-> EmptyDict]

\* what is recorded of a request: the file it loaded, its POSTs upstream, the
\* answer it got, its response, and the file and the verifier when it ended
NoRequest ==
    [ began_with |-> Absent, calls |-> 0, upstream |-> Absent,
      response |-> Absent, file_after |-> Absent,
      client_id_after |-> Absent, client_secret_after |-> Absent ]

\* register_client ends with an error response: `except Exception`
RegisterFail(r, seen) ==
    /\ rpc' = [rpc EXCEPT ![r] = "done"]
    /\ rdone' = [rdone EXCEPT ![r] =
                    [seen EXCEPT !.response = Some(RegisterError),
                                 !.file_after = credentials_file',
                                 !.client_id_after = client_id',
                                 !.client_secret_after = client_secret']]

\* RegisterFinish that leaves the verifier's client_secret as it was
RegisterFinish_SecretUnset(r, seen, data) ==
    IF ~HasKey(data, "client_id")
    THEN UNCHANGED credVars /\ RegisterFail(r, seen)
    ELSE IF ~HasKey(data, "client_secret")
    THEN /\ client_id' = data["client_id"]
         /\ UNCHANGED client_secret
         /\ RegisterFail(r, seen)
    ELSE /\ client_id' = data["client_id"]
         /\ UNCHANGED client_secret
         /\ rpc' = [rpc EXCEPT ![r] = "done"]
         /\ rdone' = [rdone EXCEPT ![r] =
                [seen EXCEPT !.response = Some(RegisterOk(PublicRecord(data))),
                             !.file_after = credentials_file',
                             !.client_id_after = client_id',
                             !.client_secret_after = client_secret']]

\* the end of register_client, from "Update token verifier in memory" on:
\* the verifier's fields are assigned one after the other, a missing key
\* raises KeyError, and the exception becomes the 400 response
RegisterFinish(r, seen, data) ==
    IF ~HasKey(data, "client_id")
    THEN UNCHANGED credVars /\ RegisterFail(r, seen)
    ELSE IF ~HasKey(data, "client_secret")
    THEN /\ client_id' = data["client_id"]
         /\ UNCHANGED client_secret
         /\ RegisterFail(r, seen)
    ELSE /\ client_id' = data["client_id"]
         /\ client_secret' = data["client_secret"]
         /\ rpc' = [rpc EXCEPT ![r] = "done"]
         /\ rdone' = [rdone EXCEPT ![r] =
                [seen EXCEPT !.response = Some(RegisterOk(PublicRecord(data))),
                             !.file_after = credentials_file',
                             !.client_id_after = client_id',
                             !.client_secret_after = client_secret']]

\* register_client up to its first await: load_credentials(); with a
\* persisted record the handler runs to its end without awaiting
RegisterBegin(r) ==
    /\ rpc[r] \in {"idle", "done"}
    /\ UNCHANGED credentials_file
    /\ LET data == load_credentials
           seen == [NoRequest EXCEPT !.began_with = credentials_file]
       IN  IF IsEmptyDict(data)
           THEN /\ rpc' = [rpc EXCEPT ![r] = "await_json"]
                /\ rdone' = [rdone EXCEPT ![r] = seen]
                /\ UNCHANGED credVars
           ELSE RegisterFinish(r, seen, data)
    /\ UNCHANGED << am_calls, am_registered >>
    /\ UNCHANGED << configVars, verifyVars, tokenVars, callbackVars,
                    otherVars, auditVars, processVars, stopVars >>

\* request.json() returns (or raises, for a body that is not JSON) and the
\* registration is POSTed upstream
RegisterPost(r, valid_json) ==
    /\ rpc[r] = "await_json"
    /\ UNCHANGED << credentials_file, am_registered >>
    /\ UNCHANGED credVars
    /\ IF ~valid_json
       THEN RegisterFail(r, rdone[r]) /\ UNCHANGED am_calls
       ELSE /\ am_calls < MaxUpstreamCalls
            /\ am_calls' = am_calls + 1
            /\ rpc' = [rpc EXCEPT ![r] = "await_post"]
            /\ rdone' = [rdone EXCEPT ![r].calls = @ + 1]
    /\ UNCHANGED << configVars, verifyVars, tokenVars, callbackVars,
                    otherVars, auditVars, processVars, stopVars >>

\* the authorization server answers: raise_for_status(), response.json(),
\* the two `del`, save_credentials(data), then the end of the handler
RegisterResponse(r, outcome) ==
    /\ rpc[r] = "await_post"
    /\ UNCHANGED am_calls
    /\ am_registered' = IF ~outcome.exc /\ outcome.status = 201
                        THEN am_registered + 1 ELSE am_registered
    /\ LET data == NewClient(am_registered + 1, outcome.keys)
           seen == [rdone[r] EXCEPT !.upstream = Some(outcome)]
       IN  IF \/ outcome.exc
              \/ outcome.status >= 400
              \/ ~outcome.json
              \/ ~HasKey(data, "registration_access_token")
              \/ ~HasKey(data, "registration_client_uri")
           THEN /\ UNCHANGED credentials_file
                /\ UNCHANGED credVars
                /\ RegisterFail(r, seen)
           ELSE /\ credentials_file' = Some(StripManagement(data))
                /\ RegisterFinish(r, seen, StripManagement(data))
    /\ UNCHANGED << configVars, verifyVars, tokenVars, callbackVars,
                    otherVars, auditVars, processVars, stopVars >>

\* the pairs the successful fresh registrations of this process left in the
\* verifier when they returned
RegisteredPairs ==
    { << rdone[r].client_id_after, rdone[r].client_secret_after >> :
        r \in { q \in Requests : /\ rpc[q] = "done"
                                 /\ rdone[q].calls > 0
                                 /\ IsSome(rdone[q].response)
                                 /\ Val(rdone[q].response).status = 200 } }

\* load_client_credentials() on a new verifier, whose credentials are None:
\* nothing without a file, else creds.get(...) of both keys
load_client_credentials ==
    IF ~IsSome(credentials_file) THEN << Absent, Absent >>
    ELSE << Val(credentials_file)["client_id"], Val(credentials_file)["client_secret"] >>

\* the first process: a server whose verifier was constructed and loaded
FirstProcess == proc = "first" /\ starts = 0 /\ registered = {}

\* the resource server process ends, with whatever its handlers were doing,
\* and a new one starts. create_resource_server as written constructs the
\* verifier without its required userinfo_endpoint argument, which raises
\* TypeError before load_client_credentials (complete = FALSE: no server);
\* complete = TRUE is a start whose entry point passes every argument and
\* then runs load_client_credentials. Only the credentials file survives.
ProcessStart(complete) ==
    /\ starts < MaxStarts
    /\ starts' = starts + 1
    /\ proc' = IF complete THEN "started" ELSE "crashed"
    /\ registered' = registered \cup RegisteredPairs
    /\ client_id' = IF complete THEN load_client_credentials[1] ELSE Absent
    /\ client_secret' = IF complete THEN load_client_credentials[2] ELSE Absent
    /\ rpc' = [r \in Requests |-> "idle"]
    /\ rdone' = [r \in Requests |-> NoRequest]
    /\ vpc' = "idle"
    /\ vsent' = << >>
    /\ vintro' = Absent
    /\ vuserinfo' = Absent
    /\ vresult' = Pending
    /\ vverified' = FALSE
    /\ UNCHANGED << vtoken, credentials_file, am_calls, am_registered >>
    /\ UNCHANGED << configVars, tokenVars, callbackVars, otherVars, auditVars,
                    stopVars >>

\* no /register request has been made and nothing is persisted
IdleRegister ==
    /\ FirstProcess
    /\ credentials_file = Absent
    /\ rpc = [r \in Requests |-> "idle"]
    /\ rdone = [r \in Requests |-> NoRequest]
    /\ am_calls = 0
    /\ am_registered = 0

NextRegister ==
    \/ \E r \in Requests : RegisterBegin(r)
    \/ \E r \in Requests, valid_json \in BOOLEAN : RegisterPost(r, valid_json)
    \/ \E r \in Requests, outcome \in RegistrationOutcomes : RegisterResponse(r, outcome)

(***************************************************************************)
(* routes/oauth.py: POST /token.  form_dict is a Python dict of strings:   *)
(* a sequence of << key, value >> with distinct keys, in insertion order.  *)
(***************************************************************************)
DictKeys(d) == { d[i][1] : i \in 1..Len(d) }

\* d.get(key)
DictGet(d, key) ==
    IF key \in DictKeys(d)
    THEN Some(d[CHOOSE i \in 1..Len(d) : d[i][1] = key][2])
    ELSE Absent

\* d[key] = value: in place for a key that is there, appended otherwise
DictSet(d, key, value) ==
    IF key \in DictKeys(d)
    THEN [i \in 1..Len(d) |-> IF d[i][1] = key THEN << key, value >> ELSE d[i]]
    ELSE Append(d, << key, value >>)

\* d.pop(key, None)
DictPop(d, key) ==
    LET Keep(e) == e[1] # key
    IN  SelectSeq(d, Keep)

\* dict(item.split("=", 1) for item in items if "=" in item)
RECURSIVE FormDict(_)
FormDict(items) ==
    IF items = << >> THEN << >>
    ELSE LET item == items[Len(items)]
             rest == FormDict(SubSeq(items, 1, Len(items) - 1))
             i == FindChar(item, "=")
         IN  IF i = 0 THEN rest
             ELSE DictSet(rest, SubSeq(item, 1, i - 1), SubSeq(item, i + 1, Len(item)))

\* the parse of a form body
ParseForm(body_str) == FormDict(Split(body_str, "&"))

\* "&".join(f"{k}={v}" for k, v in form_dict.items())
RECURSIVE EncodeForm(_)
EncodeForm(d) ==
    IF d = << >> THEN ""
    ELSE IF Len(d) = 1 THEN d[1][1] \o "=" \o d[1][2]
    ELSE d[1][1] \o "=" \o d[1][2] \o "&" \o EncodeForm(Tail(d))

\* f"{v}" of an optional str: None prints as "None"
PyStr(o) == IF IsSome(o) THEN Val(o) ELSE "None"

\* "Conditionally add client_secret"
WithCredentials(form_dict) ==
    IF DictGet(form_dict, "client_id") = client_id
    THEN DictSet(form_dict, "client_secret", PyStr(client_secret))
    ELSE DictPop(form_dict, "client_secret")

\* body_with_creds of a request body
body_with_creds(body_str) == EncodeForm(WithCredentials(ParseForm(body_str)))

\* the items a /token body is made of
TokenItems ==
    { "client_id=client-1", "client_id=other", "client_secret=guess",
      "client%5Fsecret=guess", "grant_type=authorization_code", "code=a=b",
      "client_secret" }

RECURSIVE JoinItems(_)
JoinItems(items) ==
    IF items = << >> THEN ""
    ELSE IF Len(items) = 1 THEN items[1]
    ELSE items[1] \o "&" \o JoinItems(Tail(items))

TokenBodies ==
    { JoinItems(items) : items \in UNION { [1..n -> TokenItems] : n \in 0..MaxItems } }

\* outcome of client.post(.../oauth/token): an exception, or a status with a
\* body that is JSON or not
TokenOutcomes ==
    { [exc |-> TRUE, status |-> 0, json |-> FALSE, text |-> ""] }
    \cup { [exc |-> FALSE, status |-> st, json |-> TRUE, text |-> txt] :
             st \in {200, 201, 302, 400, 401, 500},
             txt \in {"{\"access_token\": \"at\"}", "{\"error\": \"invalid_grant\"}"} }
    \cup { [exc |-> FALSE, status |-> st, json |-> FALSE, text |-> "<html>"] :
             st \in {200, 201, 302, 400, 401, 500} }

\* resp.raise_for_status() raises for every status that is not 2xx
IsSuccess(status) == status \in 200..299

\* JSONResponse(content=resp.json())
TokenRelayed(outcome) ==
    [status |-> 200, kind |-> "upstream json", error |-> "", body |-> outcome.text]

\* TokenHttpError answering 400 whatever the upstream status
TokenHttpError_Always400(outcome) ==
    [status |-> 400, kind |-> "error, details",
     error |-> "HTTP error: " \o ToString(outcome.status), body |-> outcome.text]

\* JSONResponse({"error": "HTTP error: ...", "details": ...}, status_code=...)
TokenHttpError(outcome) ==
    [status |-> outcome.status, kind |-> "error, details",
     error |-> "HTTP error: " \o ToString(outcome.status), body |-> outcome.text]

\* JSONResponse({"error": str(e)}, status_code=400)
TokenError == [status |-> 400, kind |-> "error", error |-> "str(e)", body |-> ""]

\* token_proxy up to its await of the POST upstream; a body that does not
\* decode raises and is answered 400 without any POST
TokenProxy(body_str, decodes) ==
    /\ tpc = "idle"
    /\ tbody' = body_str
    /\ IF ~decodes
       THEN /\ tpc' = "done" /\ tforward' = Absent /\ tupstream' = Absent
            /\ tresponse' = Some(TokenError)
       ELSE /\ tpc' = "await_post"
            /\ tforward' = Some(body_with_creds(body_str))
            /\ tupstream' = Absent
            /\ tresponse' = Absent
    /\ UNCHANGED << configVars, credVars, verifyVars, registerVars, callbackVars,
                    otherVars, auditVars, processVars, stopVars >>

\* the authorization server answers the forwarded request
TokenResponse(outcome) ==
    /\ tpc = "await_post"
    /\ tpc' = "done"
    /\ tupstream' = IF outcome.exc THEN Absent ELSE Some(outcome)
    /\ tresponse' = Some(IF outcome.exc THEN TokenError
                         ELSE IF ~IsSuccess(outcome.status) THEN TokenHttpError(outcome)
                         ELSE IF ~outcome.json THEN TokenError
                         ELSE TokenRelayed(outcome))
    /\ UNCHANGED << tbody, tforward >>
    /\ UNCHANGED << configVars, credVars, verifyVars, registerVars, callbackVars,
                    otherVars, auditVars, processVars, stopVars >>

IdleToken ==
    /\ tpc = "idle"
    /\ tbody = ""
    /\ tforward = Absent
    /\ tupstream = Absent
    /\ tresponse = Absent

NextToken ==
    \/ \E body_str \in TokenBodies, decodes \in BOOLEAN : TokenProxy(body_str, decodes)
    \/ \E outcome \in TokenOutcomes : TokenResponse(outcome)

(***************************************************************************)
(* mcp_client/callback.py and auth.py: the callback listener and the       *)
(* coroutine waiting for it.  The HTTPServer handles one request at a time *)
(* on its own thread; the waiter polls callback_data from another, so each *)
(* read and each write of the dict is a step of its own.                   *)
(***************************************************************************)
\* parse_qs of the request's query: the first value of each parameter
CallbackRequests ==
    { [code |-> Some("code-1"), state |-> Some("state-1"), error |-> Absent],
      [code |-> Some("code-2"), state |-> Some("state-2"), error |-> Absent],
      [code |-> Some("code-2"), state |-> Absent, error |-> Absent],
      [code |-> Some("code-1"), state |-> Some("state-1"), error |-> Some("access_denied")],
      [code |-> Absent, state |-> Absent, error |-> Some("access_denied")],
      [code |-> Absent, state |-> Some("state-1"), error |-> Some("server_error")],
      [code |-> Absent, state |-> Absent, error |-> Absent] }

NoCallbackData == [authorization_code |-> Absent, state |-> Absent, error |-> Absent]

\* how callback_handler ends: it returns (code, state), or the exception of
\* wait_for_callback leaves it
Waiting == [kind |-> "pending", code |-> Absent, state |-> Absent, message |-> ""]

Returned(code, state) ==
    [kind |-> "returned", code |-> code, state |-> state, message |-> ""]

OAuthError(error) ==
    [kind |-> "error", code |-> Absent, state |-> Absent,
     message |-> "OAuth error: " \o error]

TimeoutError ==
    [kind |-> "timeout", code |-> Absent, state |-> Absent,
     message |-> "Timeout waiting for OAuth callback"]

\* time passes, by a polling interval: while the waiter sleeps or is not
\* running, and between requests (the statements of do_GET and of the
\* polling loop take no time on that scale)
Tick ==
    /\ \/ clock < MaxClock
       \/ wpc = "sleep" /\ clock < wstart + WaitTimeout   \* up to the deadline
    /\ wpc \in {"idle", "sleep", "done"}
    /\ wpc = "sleep" => clock = wslept         \* time.sleep(0.1): one interval
    /\ hpc = "idle"
    /\ clock' = clock + 1
    /\ UNCHANGED << callback_data, listening, hpc, hreq, handled,
                    wpc, wstart, wslept, wcode, wstate, wresult >>
    /\ UNCHANGED << configVars, credVars, verifyVars, registerVars, tokenVars,
                    otherVars, auditVars, processVars, stopVars >>

\* do_GET: the branch on the query parameters and its first write
DoGet(request) ==
    /\ listening
    /\ hpc = "idle"
    /\ Len(handled) < MaxCallbacks
    /\ hreq' = request
    /\ handled' = Append(handled, [request |-> request, at |-> clock,
                                   waiter |-> wpc])
    /\ IF IsSome(request.code)
       THEN /\ callback_data' = [callback_data EXCEPT !.authorization_code = request.code]
            /\ hpc' = "write_state"
       ELSE IF IsSome(request.error)
       THEN /\ callback_data' = [callback_data EXCEPT !.error = request.error]
            /\ hpc' = "idle"
       ELSE UNCHANGED callback_data /\ hpc' = "idle"         \* 404
    /\ UNCHANGED << listening, clock, wpc, wstart, wslept, wcode, wstate, wresult >>
    /\ UNCHANGED << configVars, credVars, verifyVars, registerVars, tokenVars,
                    otherVars, auditVars, processVars, stopVars >>

\* do_GET: callback_data["state"] = query_params.get("state", [None])[0]
DoGetState ==
    /\ hpc = "write_state"
    /\ callback_data' = [callback_data EXCEPT !.state = hreq.state]
    /\ hpc' = "idle"
    /\ UNCHANGED << listening, hreq, handled, clock,
                    wpc, wstart, wslept, wcode, wstate, wresult >>
    /\ UNCHANGED << configVars, credVars, verifyVars, registerVars, tokenVars,
                    otherVars, auditVars, processVars, stopVars >>

\* callback_handler is awaited: wait_for_callback reads its start time
WaitBegin ==
    /\ wpc = "idle"
    /\ wstart' = clock
    /\ wpc' = "loop"
    /\ UNCHANGED << callback_data, listening, hpc, hreq, handled, clock,
                    wslept, wcode, wstate, wresult >>
    /\ UNCHANGED << configVars, credVars, verifyVars, registerVars, tokenVars,
                    otherVars, auditVars, processVars, stopVars >>

\* WaitLoop without the deadline: `while True`
WaitLoop_NoDeadline ==
    /\ wpc = "loop"
    /\ wpc' = "check_code"
    /\ UNCHANGED << callback_data, listening, hpc, hreq, handled, clock,
                    wstart, wslept, wcode, wstate, wresult >>
    /\ UNCHANGED << configVars, credVars, verifyVars, registerVars, tokenVars,
                    otherVars, auditVars, processVars, stopVars >>

\* while time.time() - start < timeout, else raise TimeoutError
WaitLoop ==
    /\ wpc = "loop"
    /\ IF clock - wstart < WaitTimeout
       THEN wpc' = "check_code" /\ UNCHANGED wresult
       ELSE wpc' = "done" /\ wresult' = TimeoutError
    /\ UNCHANGED << callback_data, listening, hpc, hreq, handled, clock,
                    wstart, wslept, wcode, wstate >>
    /\ UNCHANGED << configVars, credVars, verifyVars, registerVars, tokenVars,
                    otherVars, auditVars, processVars, stopVars >>

\* if self.callback_data["authorization_code"]:
WaitCheckCode ==
    /\ wpc = "check_code"
    /\ wpc' = IF Truthy(callback_data.authorization_code)
              THEN "return_code" ELSE "check_error"
    /\ UNCHANGED << callback_data, listening, hpc, hreq, handled, clock,
                    wstart, wslept, wcode, wstate, wresult >>
    /\ UNCHANGED << configVars, credVars, verifyVars, registerVars, tokenVars,
                    otherVars, auditVars, processVars, stopVars >>

\* return self.callback_data["authorization_code"]
WaitReturnCode ==
    /\ wpc = "return_code"
    /\ wcode' = callback_data.authorization_code
    /\ wpc' = "get_state"
    /\ UNCHANGED << callback_data, listening, hpc, hreq, handled, clock,
                    wstart, wslept, wstate, wresult >>
    /\ UNCHANGED << configVars, credVars, verifyVars, registerVars, tokenVars,
                    otherVars, auditVars, processVars, stopVars >>

\* if self.callback_data["error"]:, else time.sleep(0.1)
WaitCheckError ==
    /\ wpc = "check_error"
    /\ wpc' = IF Truthy(callback_data.error) THEN "raise_error" ELSE "sleep"
    /\ wslept' = clock
    /\ UNCHANGED << callback_data, listening, hpc, hreq, handled, clock,
                    wstart, wcode, wstate, wresult >>
    /\ UNCHANGED << configVars, credVars, verifyVars, registerVars, tokenVars,
                    otherVars, auditVars, processVars, stopVars >>

\* raise Exception(f"OAuth error: {self.callback_data['error']}")
WaitRaiseError ==
    /\ wpc = "raise_error"
    /\ wresult' = OAuthError(PyStr(callback_data.error))
    /\ wpc' = "done"
    /\ UNCHANGED << callback_data, listening, hpc, hreq, handled, clock,
                    wstart, wslept, wcode, wstate >>
    /\ UNCHANGED << configVars, credVars, verifyVars, registerVars, tokenVars,
                    otherVars, auditVars, processVars, stopVars >>

\* time.sleep(0.1) returns once a polling interval has passed
WaitSleep ==
    /\ wpc = "sleep"
    /\ clock > wslept
    /\ wpc' = "loop"
    /\ UNCHANGED << callback_data, listening, hpc, hreq, handled, clock,
                    wstart, wslept, wcode, wstate, wresult >>
    /\ UNCHANGED << configVars, credVars, verifyVars, registerVars, tokenVars,
                    otherVars, auditVars, processVars, stopVars >>

\* state = callback_server.get_state()
GetState ==
    /\ wpc = "get_state"
    /\ wstate' = callback_data.state
    /\ wpc' = "stop"
    /\ UNCHANGED << callback_data, listening, hpc, hreq, handled, clock,
                    wstart, wslept, wcode, wresult >>
    /\ UNCHANGED << configVars, credVars, verifyVars, registerVars, tokenVars,
                    otherVars, auditVars, processVars, stopVars >>

\* StopAndReturn returning the pair with the listener left running
StopAndReturn_NoStop ==
    /\ wpc = "stop"
    /\ hpc = "idle"
    /\ UNCHANGED listening
    /\ wresult' = Returned(wcode, wstate)
    /\ wpc' = "done"
    /\ UNCHANGED << callback_data, hpc, hreq, handled, clock,
                    wstart, wslept, wcode, wstate >>
    /\ UNCHANGED << configVars, credVars, verifyVars, registerVars, tokenVars,
                    otherVars, auditVars, processVars, stopVars >>

\* callback_server.stop(), which waits for the request being handled, and
\* return code, state
StopAndReturn ==
    /\ wpc = "stop"
    /\ hpc = "idle"
    /\ listening' = FALSE
    /\ wresult' = Returned(wcode, wstate)
    /\ wpc' = "done"
    /\ UNCHANGED << callback_data, hpc, hreq, handled, clock,
                    wstart, wslept, wcode, wstate >>
    /\ UNCHANGED << configVars, credVars, verifyVars, registerVars, tokenVars,
                    otherVars, auditVars, processVars, stopVars >>

\* stop() called on the CallbackServer by the thread that owns it, while
\* callback_handler is not running. `if self.server:` skips a listener that
\* was never started; shutdown() waits for the request being handled and
\* returns at once when serve_forever has already ended; server_close()
\* closes the socket, closed or not; join returns for a thread that ended
Stop ==
    /\ wpc \in {"idle", "done"}
    /\ listening => hpc = "idle"
    /\ listening' = FALSE
    /\ stop_result' = IF ~started THEN "nothing to stop"
                      ELSE IF listening THEN "stopped"
                      ELSE "already stopped"
    /\ UNCHANGED started
    /\ UNCHANGED << callback_data, hpc, hreq, handled, clock,
                    wpc, wstart, wslept, wcode, wstate, wresult >>
    /\ UNCHANGED << configVars, credVars, verifyVars, registerVars, tokenVars,
                    otherVars, auditVars, processVars >>

\* the second flow before its create_oauth_provider
NotStarted == [result |-> "not started", found_bound |-> FALSE]

\* PortBusy of a port that any number of sockets may bind
PortBusy_Shared == FALSE

\* HTTPServer(("localhost", port), ...): bind raises OSError (address in
\* use) while a listening socket holds the port
PortBusy == listening \/ other_listening

\* create_oauth_provider of a second flow: CallbackServer(port=3030).start()
\* on the same host; a bind error leaves start() and nothing is retried
OtherStart ==
    /\ other_start = NotStarted
    /\ other_start' = [result |-> IF PortBusy THEN "bind error" ELSE "bound",
                       found_bound |-> listening]
    /\ other_listening' = ~PortBusy
    /\ UNCHANGED << configVars, credVars, verifyVars, registerVars, tokenVars,
                    callbackVars, auditVars, processVars, stopVars >>

\* the second flow's callback_handler ends with stop()
OtherStop ==
    /\ other_listening
    /\ other_listening' = FALSE
    /\ other_start' = [other_start EXCEPT !.result = "stopped"]
    /\ UNCHANGED << configVars, credVars, verifyVars, registerVars, tokenVars,
                    callbackVars, auditVars, processVars, stopVars >>

IdleOther == other_listening = FALSE /\ other_start = NotStarted

\* the requests of the flows that compete for the port
ListenerRequests ==
    { [code |-> Some("code-1"), state |-> Some("state-1"), error |-> Absent],
      [code |-> Absent, state |-> Absent, error |-> Some("access_denied")] }

\* two flows of one host: the first as in NextCallback, and the start and
\* stop of the second
NextListener ==
    \/ Tick
    \/ \E request \in ListenerRequests : DoGet(request)
    \/ DoGetState
    \/ WaitBegin
    \/ WaitLoop
    \/ WaitCheckCode
    \/ WaitReturnCode
    \/ WaitCheckError
    \/ WaitRaiseError
    \/ WaitSleep
    \/ GetState
    \/ StopAndReturn
    \/ OtherStart
    \/ OtherStop

\* no listener: CallbackServer() before start()
IdleCallback ==
    /\ IdleOther
    /\ started = FALSE
    /\ stop_result = "not called"
    /\ callback_data = NoCallbackData
    /\ listening = FALSE
    /\ hpc = "idle"
    /\ hreq = [code |-> Absent, state |-> Absent, error |-> Absent]
    /\ handled = << >>
    /\ clock = 0
    /\ wpc = "idle"
    /\ wstart = 0
    /\ wslept = 0
    /\ wcode = Absent
    /\ wstate = Absent
    /\ wresult = Waiting

\* create_oauth_provider: CallbackServer(port=3030) and start()
InitCallback ==
    /\ IdleOther
    /\ started = TRUE
    /\ stop_result = "not called"
    /\ callback_data = NoCallbackData
    /\ listening = TRUE
    /\ hpc = "idle"
    /\ hreq = [code |-> Absent, state |-> Absent, error |-> Absent]
    /\ handled = << >>
    /\ clock = 0
    /\ wpc = "idle"
    /\ wstart = 0
    /\ wslept = 0
    /\ wcode = Absent
    /\ wstate = Absent
    /\ wresult = Waiting

NextCallback ==
    \/ Tick
    \/ \E request \in CallbackRequests : DoGet(request)
    \/ DoGetState
    \/ WaitBegin
    \/ WaitLoop
    \/ WaitCheckCode
    \/ WaitReturnCode
    \/ WaitCheckError
    \/ WaitRaiseError
    \/ WaitSleep
    \/ GetState
    \/ StopAndReturn

(***************************************************************************)
(* Specifications: the verifier, the /register route and the /token route  *)
(* of the resource server, each with the rest of the state at rest.        *)
(***************************************************************************)
\* the configuration of the default settings
DefaultConfig ==
    /\ introspection_endpoint = "http://localhost:8092/oauth/introspect"
    /\ validate_resource = FALSE
    /\ resource_url = Some(Url("http", "localhost:8001", "/"))

NoCredentials == client_id = Absent /\ client_secret = Absent

InitVerify == InitVerifier /\ IdleRegister /\ IdleToken /\ IdleCallback

SpecVerifier == InitVerify /\ [][NextVerifier]_vars

\* a fresh deployment: no credentials file, nothing loaded
InitRegister ==
    DefaultConfig /\ NoCredentials /\ IdleVerify /\ IdleRegister /\ IdleToken /\ IdleCallback

SpecRegister == InitRegister /\ [][NextRegister]_vars

\* the /token route before and after a registration
InitToken ==
    /\ DefaultConfig
    /\ \E creds \in { << Absent, Absent >>, << Some("client-1"), Some("secret-1") >> } :
          client_id = creds[1] /\ client_secret = creds[2]
    /\ IdleVerify /\ IdleRegister /\ IdleToken /\ IdleCallback

SpecToken == InitToken /\ [][NextToken]_vars

\* the client: a listener started by create_oauth_provider, the requests it
\* receives and the coroutine that waits for them
InitClient ==
    DefaultConfig /\ NoCredentials /\ IdleVerify /\ IdleRegister /\ IdleToken /\ InitCallback

SpecCallback == InitClient /\ [][NextCallback]_vars

\* the steps of the thread that runs wait_for_callback
NextWaiter ==
    \/ WaitLoop
    \/ WaitCheckCode
    \/ WaitReturnCode
    \/ WaitCheckError
    \/ WaitRaiseError
    \/ WaitSleep

\* one flow and the requests of ListenerRequests
NextWait ==
    \/ Tick
    \/ \E request \in ListenerRequests : DoGet(request)
    \/ DoGetState
    \/ WaitBegin
    \/ NextWaiter
    \/ GetState
    \/ StopAndReturn

\* the wait under a fair schedule: time passes, the serving thread ends the
\* request it handles, and the waiting thread gets to run; requests arrive
\* or not
SpecWait ==
    /\ InitClient
    /\ [][NextWait]_vars
    /\ WF_vars(Tick)
    /\ WF_vars(DoGetState)
    /\ WF_vars(NextWaiter)

\* _is_valid_resource on its own: a strict verifier of some server URL, and
\* the audiences it is asked about
InitAudit ==
    /\ introspection_endpoint = "http://localhost:8092/oauth/introspect"
    /\ validate_resource = TRUE
    /\ resource_url \in { Some(u) : u \in AuditServers }
    /\ NoCredentials /\ IdleVerify /\ IdleRegister /\ IdleToken /\ IdleCallback

SpecAudit == InitAudit /\ [][NextAudit]_vars

\* the resource server over its life: /register requests and verify_token
\* calls interleaved at their awaits, and process restarts
\* the introspection answers that differ in what verify_token does next
\* when strict validation is off
ServerIntrospectionResponses ==
    { response \in IntrospectionResponses :
        \/ response.exc
        \/ /\ response.status = 200 /\ response.json
           /\ response.data.scope = Some("openid full_profile")
           /\ response.data.exp = Absent
           /\ response.data.aud = Absent
           /\ response.data.client_id = Absent }

NextServerVerifier ==
    \/ VerifyBegin("tok-a")
    \/ \E response \in ServerIntrospectionResponses : VerifyIntrospected(response)
    \/ \E response \in UserinfoResponses : VerifyUserinfo(response)

NextServer ==
    \/ proc # "crashed" /\ NextRegister
    \/ proc # "crashed" /\ NextServerVerifier
    \/ \E complete \in BOOLEAN : ProcessStart(complete)

SpecServer == InitRegister /\ [][NextServer]_vars

\* the life of one CallbackServer: constructed only, or started by
\* create_oauth_provider; its requests, its callback_handler, and calls of
\* stop() before and after callback_handler
InitStop ==
    /\ DefaultConfig /\ NoCredentials /\ IdleVerify /\ IdleRegister /\ IdleToken
    /\ IdleCallback \/ InitCallback

NextStop ==
    \/ Tick
    \/ \E request \in ListenerRequests : DoGet(request)
    \/ DoGetState
    \/ WaitBegin
    \/ NextWaiter
    \/ GetState
    \/ StopAndReturn
    \/ Stop

SpecStop == InitStop /\ [][NextStop]_vars

\* two authorization flows that use the fixed callback port
SpecListener == InitClient /\ [][NextListener]_vars

(***************************************************************************)
(* Claims about verify_token.                                              *)
(***************************************************************************)
\* the call got an HTTP answer from the introspection endpoint
Introspected == IsSome(vintro) /\ ~Val(vintro).exc

\* the introspection endpoint answered 200 with a JSON body saying active
ReportedActive ==
    /\ Introspected
    /\ Val(vintro).status = 200
    /\ Val(vintro).json
    /\ Val(vintro).data.active = Some(TRUE)

\* the audiences of an introspection body: none, the one string, the list's
AudEntries(data) ==
    IF IsSome(data.aud)
    THEN { Val(data.aud).urls[i] : i \in 1..Len(Val(data.aud).urls) }
    ELSE { }

\* some audience covers this server's resource URL
SomeAudMatches(data) ==
    \E u \in AudEntries(data) : check_resource_allowed(Val(resource_url), u)

\* C1: whatever the token and the rest of the introspection response, a
\* response whose `active` is false or missing makes verify_token return
\* None, with strict validation on or off.
C1_InactiveReturnsNone ==
    (Introspected /\ Val(vintro).data.active # Some(TRUE)) => vresult = ReturnsNone

\* C1 witness: a 200 response that is inactive but otherwise complete, with an
\* audience that matches, was answered by None.
C1_Witness ==
    /\ vpc = "done"
    /\ Introspected
    /\ Val(vintro).status = 200
    /\ Val(vintro).data.active = Some(FALSE)
    /\ IsSome(Val(vintro).data.scope)
    /\ IsSome(Val(vintro).data.exp)
    /\ SomeAudMatches(Val(vintro).data)
    /\ vresult = ReturnsNone

\* a VerifiedToken only for a token reported active whose audience, under
\* strict validation, matches
C2_OnlyIfActiveAndMatching ==
    vresult.kind = "token" =>
        /\ ReportedActive
        /\ validate_resource => SomeAudMatches(Val(vintro).data)

\* strict validation: no matching audience (absent, null, a non-matching
\* string, a list without a match, the empty list) gives None
C2_StrictMismatchReturnsNone ==
    (validate_resource /\ vpc = "done" /\ Introspected
        /\ ~SomeAudMatches(Val(vintro).data))
    => vresult = ReturnsNone

\* C2 as stated: a VerifiedToken only if active and (strict) matching; under
\* strict validation None without a matching audience, and a populated
\* VerifiedToken whenever the token is active and an audience matches.
C2_AsStated ==
    /\ C2_OnlyIfActiveAndMatching
    /\ C2_StrictMismatchReturnsNone
    /\ (validate_resource /\ vpc = "done" /\ ReportedActive
            /\ SomeAudMatches(Val(vintro).data))
       => vresult.kind = "token"

\* C2 amended: as stated, the VerifiedToken for an active token with a
\* matching audience being returned when the later steps succeed too: the
\* userinfo endpoint answers with a JSON body and the introspection response
\* carries a `scope` to split.
C2_StrictResourceValidation ==
    /\ C2_OnlyIfActiveAndMatching
    /\ C2_StrictMismatchReturnsNone
    /\ (validate_resource /\ vpc = "done" /\ ReportedActive
            /\ SomeAudMatches(Val(vintro).data)
            /\ IsSome(Val(vintro).data.scope)
            /\ IsSome(vuserinfo) /\ ~Val(vuserinfo).exc /\ Val(vuserinfo).json)
       => /\ vresult.kind = "token"
          /\ Val(vresult.token).token = vtoken
          /\ Val(vresult.token).resource = Val(vintro).data.aud

\* C2 witness: under strict validation a token whose `aud` list holds a
\* non-matching and then a matching entry was verified.
C2_Witness ==
    /\ validate_resource
    /\ vpc = "done"
    /\ ReportedActive
    /\ IsSome(Val(vintro).data.aud)
    /\ Val(Val(vintro).data.aud).kind = "list"
    /\ Len(Val(Val(vintro).data.aud).urls) = 2
    /\ ~check_resource_allowed(Val(resource_url), Val(Val(vintro).data.aud).urls[1])
    /\ check_resource_allowed(Val(resource_url), Val(Val(vintro).data.aud).urls[2])
    /\ vresult.kind = "token"

\* the scheme and the host of an endpoint URL "scheme://host[:port]/path"
SchemeOf(endpoint) == Split(endpoint, ":")[1]

HostOf(endpoint) == Split(Split(endpoint, "/")[3], ":")[1]

LoopbackHosts == { "localhost", "127.0.0.1" }

\* C3: with an introspection endpoint that is neither https nor on a loopback
\* host, verify_token returns None and issues no request at all.
C3_UnsafeEndpointNoRequest ==
    (/\ Truthy(client_id) /\ Truthy(client_secret)
     /\ SchemeOf(introspection_endpoint) # "https"
     /\ HostOf(introspection_endpoint) \notin LoopbackHosts)
    => /\ vsent = << >>
       /\ vpc = "done" => vresult = ReturnsNone

(***************************************************************************)
(* Claims about POST /token.                                               *)
(***************************************************************************)
\* percent-decoding of a form field name, as the receiver of an
\* application/x-www-form-urlencoded body does it (for the escape of `_`)
RECURSIVE Unquote(_)
Unquote(s) ==
    IF Len(s) = 0 THEN ""
    ELSE IF StartsWithAny(s, << "%5F", "%5f" >>)
         THEN "_" \o Unquote(SubSeq(s, 4, Len(s)))
    ELSE SubSeq(s, 1, 1) \o Unquote(SubSeq(s, 2, Len(s)))

\* the field an item of a form body names
FieldName(item) ==
    LET i == FindChar(item, "=")
    IN  Unquote(IF i = 0 THEN item ELSE SubSeq(item, 1, i - 1))

\* the `&`-separated items of a form body that name the field `key`
FieldItems(body_str, key) ==
    LET items == Split(body_str, "&")
    IN  { i \in 1..Len(items) : FieldName(items[i]) = key }

\* the request's client_id field is not the active client_id
ClientMismatch == DictGet(ParseForm(tbody), "client_id") # client_id

\* C4: a /token request whose client_id differs from the active client_id is
\* forwarded without any client_secret field, whatever the caller supplied,
\* and the stored secret is not in the forwarded body.
C4_MismatchNoSecret ==
    (IsSome(tforward) /\ ClientMismatch)
    => /\ FieldItems(Val(tforward), "client_secret") = { }
       /\ \A i \in 1..Len(Split(Val(tforward), "&")) :
             Split(Val(tforward), "&")[i] # "client_secret=" \o PyStr(client_secret)

(***************************************************************************)
(* Claims about POST /register.                                            *)
(***************************************************************************)
Finished(r) == rpc[r] = "done" /\ IsSome(rdone[r].response)

Succeeded(r) == Finished(r) /\ Val(rdone[r].response).status = 200

\* C5: a /register call that finds a persisted record makes no upstream
\* call, leaves the record as it is and answers success with the record's
\* client_id; so at most one upstream registration is ever performed.
C5_RegisterIdempotent ==
    /\ \A r \in Requests :
          (Finished(r) /\ IsSome(rdone[r].began_with))
          => /\ rdone[r].calls = 0
             /\ rdone[r].file_after = rdone[r].began_with
             /\ Val(rdone[r].response).status = 200
             /\ Val(rdone[r].response).body["client_id"]
                   = Val(rdone[r].began_with)["client_id"]
    /\ am_registered <= 1

\* C6: two concurrent /register requests that find no persisted record never
\* both POST a registration upstream, and when both succeed they answer with
\* the same client_id, the one persisted and active.
C6_RegisterSerialized ==
    /\ Cardinality({ r \in Requests : rpc[r] = "await_post" }) <= 1
    /\ \A r1, r2 \in Requests :
          (r1 # r2 /\ Succeeded(r1) /\ Succeeded(r2)
              /\ rdone[r1].began_with = Absent /\ rdone[r2].began_with = Absent)
          => /\ Val(rdone[r1].response).body["client_id"]
                   = Val(rdone[r2].response).body["client_id"]
             /\ client_id = Val(rdone[r1].response).body["client_id"]

\* C7: the persisted record never holds registration_access_token or
\* registration_client_uri.
C7_NoManagementPersisted ==
    IsSome(credentials_file)
    => /\ ~HasKey(Val(credentials_file), "registration_access_token")
       /\ ~HasKey(Val(credentials_file), "registration_client_uri")

\* C7 witness: a registration whose upstream response carried both fields
\* has been persisted.
C7_Witness ==
    /\ IsSome(credentials_file)
    /\ \E r \in Requests :
          /\ Succeeded(r)
          /\ IsSome(rdone[r].upstream)
          /\ {"registration_access_token", "registration_client_uri"}
                \subseteq Val(rdone[r].upstream).keys

InTime(i) ==
    /\ handled[i].waiter # "done"
    /\ wpc # "idle"
    /\ handled[i].at < wstart + WaitTimeout

\* request i is the first that carries a recognized parameter
FirstRecognized(i) ==
    \A j \in 1..(i - 1) :
        ~IsSome(handled[j].request.code) /\ ~IsSome(handled[j].request.error)

\* C9: for every callback request with a `code` that the listener handles
\* before the deadline of the wait, wait_for_callback returns that code and
\* does not raise, and the result's error is absent.  Stated for the request
\* that wins, the first with a recognized parameter.
C9_CodeCallbackReturned ==
    \A i \in 1..Len(handled) :
        (wpc = "done" /\ InTime(i) /\ FirstRecognized(i)
            /\ IsSome(handled[i].request.code))
        => /\ wresult.kind = "returned"
           /\ wresult.code = handled[i].request.code
           /\ callback_data.error = Absent

\* C10: for every callback request with an `error` (and no `code`), the flow
\* fails with the authorization error carrying that error value, and does not
\* return a code, however further requests interleave with the polling.
\* Stated for the request that wins, the first with a recognized parameter.
C10_ErrorCallbackFails ==
    \A i \in 1..Len(handled) :
        (wpc = "done" /\ InTime(i) /\ FirstRecognized(i)
            /\ ~IsSome(handled[i].request.code) /\ IsSome(handled[i].request.error))
        => /\ wresult.kind = "error"
           /\ wresult.message = "OAuth error: " \o Val(handled[i].request.error)
           /\ wresult.code = Absent

\* request i carries `code` or `error`
Recognized(i) ==
    IsSome(handled[i].request.code) \/ IsSome(handled[i].request.error)

\* C11: when no callback arrives before the wait times out, the flow fails
\* with the Timeout error, and once callback_handler has finished the
\* listener is stopped, its port released.
C11_TimeoutStopsListener ==
    (wpc = "done" /\ \A i \in 1..Len(handled) : handled[i].waiter = "done")
    => /\ wresult = TimeoutError
       /\ ~listening

\* what do_GET stores for a request
Stored(request) ==
    IF IsSome(request.code)
    THEN [authorization_code |-> request.code, state |-> request.state,
          error |-> Absent]
    ELSE [authorization_code |-> Absent, state |-> Absent, error |-> request.error]

\* C12: the result cell is write-once: never both a code and an error, and
\* once the first request with a recognized parameter has been handled the
\* cell holds what that request stored, whatever requests follow.
C12_WriteOnce ==
    /\ ~(IsSome(callback_data.authorization_code) /\ IsSome(callback_data.error))
    /\ \A i \in 1..Len(handled) :
          (Recognized(i) /\ FirstRecognized(i) /\ (i < Len(handled) \/ hpc = "idle"))
          => callback_data = Stored(handled[i].request)

\* C13: the (code, state) pair callback_handler returns is the pair of one
\* callback request, under any interleaving of do_GET's writes with the
\* waiter's reads.
C13_PairFromOneRequest ==
    wresult.kind = "returned"
    => \E i \in 1..Len(handled) :
          /\ handled[i].request.code = wresult.code
          /\ handled[i].request.state = wresult.state

(***************************************************************************)
(* Claims about verify_token's failures.                                   *)
(***************************************************************************)
\* C14: with client credentials loaded, verify_token never raises: whatever
\* the token and the upstream outcome, it ends with a VerifiedToken or none.
C14_NeverRaisesForInvalidToken ==
    (vpc = "done" /\ CredentialsSet) => vresult.kind \in {"token", "none"}

\* C14 witness: an active introspection response without `scope`, whose
\* split fails after the userinfo fetch, ended in none.
C14_Witness ==
    /\ vpc = "done" /\ CredentialsSet
    /\ IsSome(vintro) /\ ReportedActive /\ ~IsSome(Val(vintro).data.scope)
    /\ IsSome(vuserinfo) /\ Val(vuserinfo).json
    /\ vresult = ReturnsNone

\* C15: without a client_id or without a client_secret, verify_token fails
\* with the misconfiguration error, not with none, for every token and every
\* endpoint, and no request has been issued.
C15_MisconfiguredRaises ==
    (vpc # "idle" /\ (~IsSome(client_id) \/ ~IsSome(client_secret)))
    => /\ vpc = "done"
       /\ vresult = Raises
       /\ vsent = << >>

\* C15 witness: a client_id without a secret, and an endpoint the guard
\* would reject: the call raised all the same.
C15_Witness ==
    /\ vpc = "done"
    /\ IsSome(client_id) /\ ~IsSome(client_secret)
    /\ ~EndpointAllowed(introspection_endpoint)
    /\ vresult = Raises

\* a step of the call failed: the introspection call, the resource
\* validation or the userinfo fetch (an exception or a non-success status)
StepFailed ==
    /\ Introspected
    /\ \/ Val(vintro).exc
       \/ Val(vintro).status \notin 200..299
       \/ (validate_resource /\ ~SomeAudMatches(Val(vintro).data))
       \/ /\ IsSome(vuserinfo)
          /\ Val(vuserinfo).exc \/ Val(vuserinfo).status \notin 200..299

\* C16: verify_token fails closed: when the introspection call, the resource
\* validation or the userinfo fetch failed, it returns none; a failed
\* userinfo fetch never yields a VerifiedToken.
C16_FailsClosed ==
    (vpc = "done" /\ StepFailed) => vresult = ReturnsNone

\* C19: nothing is cached: a call that passes the credential and endpoint
\* checks issues its own introspection request, a VerifiedToken comes only
\* from this call's responses, and a token verified by an earlier call and
\* reported inactive (or not introspected successfully) now gives none.
C19_NoCaching ==
    /\ (vpc # "idle" /\ CredentialsSet /\ EndpointAllowed(introspection_endpoint))
       => /\ Len(vsent) >= 1
          /\ vsent[1] = IntrospectionRequest(vtoken)
    /\ vresult.kind = "token" => (ReportedActive /\ IsSome(vuserinfo))
    /\ (vpc = "done" /\ vverified /\ ~ReportedActive)
       => vresult = ReturnsNone

\* C19 witness: the token was verified by an earlier call; this call's
\* introspection answered 200 with active false, and the call returned none.
C19_Witness ==
    /\ vpc = "done"
    /\ vverified
    /\ Introspected /\ Val(vintro).status = 200 /\ Val(vintro).json
    /\ Val(vintro).data.active = Some(FALSE)
    /\ vresult = ReturnsNone

\* the items of a string separated by whitespace, none of them empty
Words(str) ==
    LET NotEmpty(item) == item # ""
    IN  SelectSeq(Split(str, " "), NotEmpty)

\* C20: the VerifiedToken returned for an active token carries the presented
\* token, the whitespace-separated items of `scope` (no empty item), `exp`
\* as expires_at, `aud` as resource and the userinfo body as claims.
C20_VerifiedTokenFields ==
    vresult.kind = "token"
    => LET data == Val(vintro).data
           t == Val(vresult.token)
       IN  /\ t.token = vtoken
           /\ t.scopes = Words(Val(data.scope))
           /\ t.expires_at = data.exp
           /\ t.resource = data.aud
           /\ t.claims = Val(vuserinfo).data

(***************************************************************************)
(* Claims about the responses of POST /token.                              *)
(***************************************************************************)
\* C17: when the token endpoint answers the forwarded request with a
\* non-success status s, the proxy answers {error, details} with status s;
\* when it answers with success and a JSON body, the proxy relays that body.
C17_UpstreamStatusRelayed ==
    (tpc = "done" /\ IsSome(tupstream))
    => LET resp == Val(tupstream)
           r == Val(tresponse)
       IN  /\ resp.status \notin 200..299
              => /\ r.kind = "error, details"
                 /\ r.status = resp.status
                 /\ r.body = resp.text
           /\ (resp.status \in 200..299 /\ resp.json)
              => /\ r.kind = "upstream json"
                 /\ r.body = resp.text

\* C17 witness: the token endpoint answered 401 and the proxy answered 401
\* with the structured error.
C17_Witness ==
    /\ tpc = "done"
    /\ IsSome(tupstream) /\ Val(tupstream).status = 401
    /\ Val(tresponse).status = 401 /\ Val(tresponse).kind = "error, details"

InWait ==
    wpc \in {"loop", "check_code", "return_code", "check_error", "raise_error", "sleep"}

\* wait_for_callback has returned a code or raised
WaitEnded == wpc \in {"get_state", "stop", "done"}

\* C21: wait_for_callback always terminates, with a code, with the
\* authorization error, or with Timeout once the deadline has elapsed; it
\* does not sleep on past the deadline and never returns without a code.
C21_WaitTerminates ==
    /\ InWait ~> WaitEnded
    /\ [](wresult = TimeoutError => clock - wstart >= WaitTimeout)
    /\ [](InWait => clock <= wstart + WaitTimeout)
    /\ [](wpc \in {"get_state", "stop"} => Truthy(wcode))
    /\ [](wresult.kind = "returned" => Truthy(wresult.code))

\* C21 witness: no request came, and the wait ended with Timeout at the
\* deadline.
C21_Witness ==
    /\ handled = << >>
    /\ wpc = "done"
    /\ wresult = TimeoutError
    /\ clock = wstart + WaitTimeout

(***************************************************************************)
(* Claims about the matching of audiences.                                 *)
(***************************************************************************)
\* the segments of a path
Segments(path) ==
    LET NotEmpty(seg) == seg # ""
    IN  SelectSeq(Split(path, "/"), NotEmpty)

\* path `a` is path `b` or an ancestor of it
IsAncestorOrEqual(a, b) ==
    /\ Len(Segments(a)) <= Len(Segments(b))
    /\ SubSeq(Segments(b), 1, Len(Segments(a))) = Segments(a)

\* C22: under strict validation an audience is accepted exactly when it has
\* the scheme, host and port of this server's resource URL and its path is
\* the server's path or an ancestor of it; an audience below the server's
\* path, or of another host or port, is rejected.
C22_AudienceCoversServer ==
    IsSome(aud_checked)
    => LET aud == Val(aud_checked)
           server == Val(resource_url)
       IN  aud_valid <=> /\ aud.scheme = server.scheme
                         /\ aud.netloc = server.netloc
                         /\ IsAncestorOrEqual(aud.path, server.path)

\* C22 witness: the server is at /api; the audience /api/v1 below it has
\* been rejected.
C22_Witness ==
    /\ resource_url = Some(Url("http", "localhost:8001", "/api"))
    /\ aud_checked = Some(Url("http", "localhost:8001", "/api/v1"))
    /\ ~aud_valid

\* C23: with strict validation off, `aud` plays no part: whether the call
\* ends with a VerifiedToken is decided by `active`, `scope` and the userinfo
\* response alone (an active token is always taken on to the userinfo
\* request), and `aud` is copied into the result's resource.
C23_AudIgnoredWhenNotStrict ==
    (~validate_resource /\ vpc = "done" /\ Introspected)
    => /\ ReportedActive => (Len(vsent) = 2 /\ vsent[2].to = "userinfo")
       /\ vresult.kind = "token"
          <=> /\ ReportedActive
              /\ IsSome(Val(vintro).data.scope)
              /\ IsSome(vuserinfo) /\ ~Val(vuserinfo).exc /\ Val(vuserinfo).json
       /\ vresult.kind = "token"
          => Val(vresult.token).resource = Val(vintro).data.aud

\* C23 witness: strict validation is off and a token whose only audience is
\* another host has been verified, with that audience as its resource.
C23_Witness ==
    /\ ~validate_resource
    /\ vresult.kind = "token"
    /\ Val(vresult.token).resource
          = Some([kind |-> "str", urls |-> << Url("http", "evil.example:8001", "") >>])

(***************************************************************************)
(* Claims about the credentials POST /token attaches.                      *)
(***************************************************************************)
\* the well-formed fields (name=value) of a form body, in order
Fields(body_str) ==
    LET IsField(item) == FindChar(item, "=") # 0
    IN  SelectSeq(Split(body_str, "&"), IsField)

\* those of them that do not name client_secret, as a set
OtherFields(body_str) ==
    { Fields(body_str)[i] : i \in { j \in 1..Len(Fields(body_str)) :
                                      FieldName(Fields(body_str)[j]) # "client_secret" } }

\* the request's client_id field is the active client_id
ClientMatch == IsSome(client_id) /\ DictGet(ParseForm(tbody), "client_id") = client_id

\* C24: a /token request whose client_id is the active client_id is
\* forwarded with exactly one client_secret field, holding the stored
\* secret in place of any the caller supplied, and with every other field
\* unchanged.
C24_MatchGetsStoredSecret ==
    (IsSome(tforward) /\ ClientMatch)
    => LET secrets == FieldItems(Val(tforward), "client_secret")
       IN  /\ Cardinality(secrets) = 1
           /\ \A i \in secrets :
                 Split(Val(tforward), "&")[i] = "client_secret=" \o PyStr(client_secret)
           /\ OtherFields(Val(tforward)) = OtherFields(tbody)

\* C25: while no credentials are active, no /token request, whatever its
\* body, is forwarded with a client_secret field the proxy added.
C25_NoSecretWithoutCredentials ==
    (IsSome(tforward) /\ client_id = Absent /\ client_secret = Absent)
    => \A i \in FieldItems(Val(tforward), "client_secret") :
          \E j \in FieldItems(tbody, "client_secret") :
             Split(tbody, "&")[j] = Split(Val(tforward), "&")[i]

(***************************************************************************)
(* Claims about what /register leaves behind.                              *)
(***************************************************************************)
\* request r ends in this step with the error response
EndsWithError(r) ==
    /\ rdone'[r] # rdone[r]
    /\ rpc'[r] = "done"
    /\ IsSome(rdone'[r].response)
    /\ Val(rdone'[r].response).status # 200

\* C26: a /register request that is answered with an error leaves the
\* persisted record and the verifier's credentials as they were, and its
\* response is {error} with a 4xx status.
C26_ErrorChangesNothing ==
    [][\A r \in Requests :
          EndsWithError(r)
          => /\ credentials_file' = credentials_file
             /\ client_id' = client_id
             /\ client_secret' = client_secret
             /\ rdone'[r].response = Some(RegisterError)
             /\ RegisterError.status \in 400..499]_vars

\* request r registered a new client upstream / answered from the file
FreshPath(r) == rdone[r].calls > 0

ShortCircuitPath(r) == rdone[r].calls = 0

C28_PersistenceRoundTrip ==
    (proc = "started" /\ registered # {})
    => /\ << client_id, client_secret >> \in registered
       /\ vresult # Raises
       /\ \A r \in Requests : Finished(r) => rdone[r].calls = 0

\* the clients the authorization server can have registered
ClientNumbers == 1..MaxUpstreamCalls

\* id and secret are those of one registration
SamePair(id, secret) ==
    \E n \in ClientNumbers :
       /\ id = Some("client-" \o ToString(n))
       /\ secret = Some("secret-" \o ToString(n))

\* C29: the client_id and client_secret of an introspection request are
\* those of one registration, whatever /register requests run beside the
\* verify_token call.
C29_ConsistentPairSent ==
    \A i \in 1..Len(vsent) :
       vsent[i].to = "introspect"
       => SamePair(vsent[i].client_id, vsent[i].client_secret)

\* a step of verify_token
VerifyStep ==
    \/ \E token \in Tokens : VerifyBegin(token)
    \/ \E response \in IntrospectionResponses : VerifyIntrospected(response)
    \/ \E response \in UserinfoResponses : VerifyUserinfo(response)

\* the second half of C29: verify_token changes neither the verifier's
\* credentials nor the credentials file
VerifyKeepsCredentials ==
    [][VerifyStep => UNCHANGED << client_id, client_secret, credentials_file >>]_vars

(***************************************************************************)
(* Claims about the order of the requests of one verify_token call.        *)
(***************************************************************************)
\* C30: a call sends the token to the userinfo endpoint only after its own
\* introspection request was answered 200 and active and, in strict mode,
\* with a matching audience; and it sends the introspection request only
\* with both credentials set and an endpoint that passed the prefix check.
C30_RequestsInOrder ==
    /\ Len(vsent) <= 2
    /\ \A i \in 1..Len(vsent) :
          vsent[i].to = "userinfo"
          => /\ i = 2
             /\ vsent[1].to = "introspect"
             /\ vsent[1].token = vsent[i].token
             /\ ReportedActive
             /\ validate_resource => SomeAudMatches(Val(vintro).data)
    /\ \A i \in 1..Len(vsent) :
          vsent[i].to = "introspect"
          => /\ i = 1
             /\ Truthy(vsent[i].client_id) /\ Truthy(vsent[i].client_secret)
             /\ StartsWithAny(introspection_endpoint,
                              << "https://", "http://localhost", "http://127.0.0.1" >>)

C30_Witness ==
    /\ Len(vsent) = 2
    /\ vsent[2].to = "userinfo"
    /\ validate_resource
    /\ vpc = "userinfo"

(***************************************************************************)
(* Claims about the end of the callback listener.                          *)
(***************************************************************************)
\* callback_handler has returned its (code, state) pair
Resolved == wresult.kind = "returned"

\* C31: when callback_handler has returned (code, state) the listener is
\* stopped and its port free, no request has been accepted after the
\* return, and a stop() of a listener that was never started or is already
\* stopped returns and leaves it not listening.
C31_StoppedBeforeReturn ==
    /\ Resolved
       => /\ ~listening
          /\ hpc = "idle"
          /\ \A i \in 1..Len(handled) : handled[i].waiter # "done"
    /\ stop_result \in {"nothing to stop", "already stopped"}
       => /\ ~listening
          /\ stop_result = "nothing to stop" => handled = << >>

\* C31 witness: callback_handler returned the pair of a handled request and
\* stop() was then called again, on the stopped listener.
C31_Witness ==
    /\ Resolved
    /\ wresult.code = Some("code-1") /\ wresult.state = Some("state-1")
    /\ stop_result = "already stopped"

\* stop() has been called on a listener that was never started
StopNeverStarted == ~started /\ stop_result = "nothing to stop" /\ wpc = "done"

====
